---- MODULE Spec2Model ----
(***************************************************************************)
(* The Sinsemilla hash and commitment of src/src/lib.rs as a state         *)
(* machine: label concatenation and domain construction, the K-bit         *)
(* chunker, the incomplete-addition fold, the x-coordinate extraction and  *)
(* the bit/integer conversions.                                            *)
(*                                                                         *)
(* The curve library (pasta_curves) and the modules addition.rs and        *)
(* constants.rs are not part of the source tree.  The Pallas group, which  *)
(* has prime order, is modelled by the integers modulo Order; hash-to-curve *)
(* by a fixed digest into the non-identity points; IncompletePoint by the  *)
(* contract of the specification's section 4.3.                            *)
(***************************************************************************)
EXTENDS Integers, Sequences, FiniteSets, TLC

(***************************************************************************)
(* Bounds of the model.                                                    *)
(***************************************************************************)
\* Order of the model group standing for the Pallas curve.
Order == 13
\* Blinding scalars are drawn from 0..MaxScalar.
MaxScalar == 3
\* Short messages: every bit sequence of at most MaxMsgLen bits ...
MaxMsgLen == 12
\* ... with at most MaxOnes bits set.
MaxOnes == 2
\* Long messages run from C*K - 1 to C*K + MaxOver bits, medium ones from
\* 2K + 1 to 3K + MaxOver bits; long labels from 61 to 62 + MaxOver bytes;
\* integers given to i2lebsp_k up to 2^K - 1 + MaxOver.
MaxOver == 1
\* Labels are built from at most MaxLabelChars characters.
MaxLabelChars == 4

(***************************************************************************)
(* Program constants.                                                      *)
(***************************************************************************)
\* Chunk width: Chunks::Item is [bool; 10] and lebs2ip_k asserts len == K.
K == 10
\* Maximum number of chunks of a message (constants.rs; the Sinsemilla c).
C == 253
\* Capacity of the label buffers of CommitDomain::new.
BufLen == 64
\* Width in bytes of usize::to_le_bytes on a 64-bit target.
UsizeBytes == 8

\* "z.cash:SinsemillaQ"
Q_PERSONALIZATION ==
    <<122, 46, 99, 97, 115, 104, 58, 83, 105, 110, 115, 101, 109, 105, 108, 108, 97, 81>>
\* "z.cash:SinsemillaS"
S_PERSONALIZATION ==
    <<122, 46, 99, 97, 115, 104, 58, 83, 105, 110, 115, 101, 109, 105, 108, 108, 97, 83>>
\* "-M" and "-r", the suffixes of CommitDomain::new.
SuffixM == <<45, 77>>
SuffixR == <<45, 114>>

(***************************************************************************)
(* The curve group (collaborator): points are 0..Order-1, 0 the identity.  *)
(***************************************************************************)
Identity == 0
Points == 0 .. (Order - 1)
PointAdd(p, q) == (p + q) % Order
PointNeg(p) == (Order - p) % Order
PointMul(p, s) == (p * s) % Order

\* Affine coordinates: P and -P share x; y tells them apart.  The identity
\* has no coordinates.
XCoord(p) == IF p <= Order - p THEN p ELSE Order - p
YCoord(p) == IF p < Order - p THEN 0 ELSE 1
FromXY(x, y) == IF y = 0 THEN x ELSE Order - x

\* CtOption<T>: a flag and a value (the default when the flag is clear).
CtSome(v) == [is_some |-> TRUE, value |-> v]
CtNone(dflt) == [is_some |-> FALSE, value |-> dflt]

\* A digest of a byte string: the position-weighted sum of its bytes.
RECURSIVE DigestRange(_, _, _)
DigestRange(bytes, lo, hi) ==
    IF lo > hi THEN 0
    ELSE IF lo = hi THEN ((bytes[lo] + 1) * (lo * lo + 3 * lo + 1)) % 1000003
    ELSE LET mid == (lo + hi) \div 2
         IN  (DigestRange(bytes, lo, mid) + DigestRange(bytes, mid + 1, hi)) % 1000003

Digest(bytes) == (DigestRange(bytes, 1, Len(bytes)) + 7 * Len(bytes) + 7) % 1000003

\* hash_to_curve(personalization)(message): deterministic, never the identity.
HashToCurve(pers, message) ==
    1 + ((Digest(pers) * 131 + Digest(message)) % (Order - 1))

(***************************************************************************)
(* Bit / integer conversions.                                              *)
(***************************************************************************)
\* i2lebsp::<NUM_BITS>(int): res[i] = (int & (1 << i)) != 0.
i2lebsp(NUM_BITS, int) ==
    [panic |-> NUM_BITS > 64,
     val   |-> [i \in 1 .. NUM_BITS |-> ((int \div (2 ^ (i - 1))) % 2) = 1]]

\* Mutant of lebs2ip_fold: the first bit carries the highest weight.
RECURSIVE lebs2ip_fold_bigEndian(_, _, _)
lebs2ip_fold_bigEndian(bits, i, acc) ==
    IF i > Len(bits) THEN acc
    ELSE lebs2ip_fold_bigEndian(bits, i + 1,
                                acc + IF bits[i] THEN 2 ^ (Len(bits) - i) ELSE 0)

\* The fold of lebs2ip_k: acc + (1 << i) for every set bit i.
RECURSIVE lebs2ip_fold(_, _, _)
lebs2ip_fold(bits, i, acc) ==
    IF i > Len(bits) THEN acc
    ELSE lebs2ip_fold(bits, i + 1, acc + IF bits[i] THEN 2 ^ (i - 1) ELSE 0)

\* lebs2ip_k(bits): assert len == K, then the little-endian sum (below 2^K,
\* so the u32 addition cannot wrap).
lebs2ip_k(bits) ==
    IF Len(bits) # K THEN [panic |-> TRUE, val |-> 0]
    ELSE [panic |-> FALSE, val |-> lebs2ip_fold(bits, 1, 0)]

\* i2lebsp_k(int): assert int < 2^K, then i2lebsp::<K>(int as u64).
i2lebsp_k(int) ==
    IF ~(int < 2 ^ K) THEN [panic |-> TRUE, val |-> <<>>]
    ELSE i2lebsp(K, int)

(***************************************************************************)
(* Label concatenation.                                                    *)
(***************************************************************************)
\* core::str::from_utf8: the bytes are a sequence of well-formed characters.
\* The width of the character a first byte opens (0: not a first byte):
\* 0x00..0x7F one byte, 0xC2..0xDF two, 0xE0..0xEF three, 0xF0..0xF4 four.
Utf8Width(b) ==
    IF b < 128 THEN 1
    ELSE IF b >= 194 /\ b <= 223 THEN 2
    ELSE IF b >= 224 /\ b <= 239 THEN 3
    ELSE IF b >= 240 /\ b <= 244 THEN 4
    ELSE 0

IsContinuation(b) == b >= 128 /\ b <= 191

\* The second byte of a character is a continuation byte, narrowed after
\* 0xE0 (no overlong form), 0xED (no surrogate), 0xF0 (no overlong form) and
\* 0xF4 (nothing above U+10FFFF).
IsSecond(first, b) ==
    CASE first = 224 -> b >= 160 /\ b <= 191
      [] first = 237 -> b >= 128 /\ b <= 159
      [] first = 240 -> b >= 144 /\ b <= 191
      [] first = 244 -> b >= 128 /\ b <= 143
      [] OTHER       -> IsContinuation(b)

\* Every byte that is not a continuation byte opens a whole character, and
\* the byte after a character opens the next one; the first byte opens one.
IsUtf8(bytes) ==
    /\ Len(bytes) > 0 => ~IsContinuation(bytes[1])
    /\ \A i \in 1 .. Len(bytes) :
        IsContinuation(bytes[i]) \/
        LET w == Utf8Width(bytes[i])
        IN  /\ w > 0
            /\ i + w - 1 <= Len(bytes)
            /\ w > 1 => IsSecond(bytes[i], bytes[i + 1])
            /\ \A j \in (i + 2) .. (i + w - 1) : IsContinuation(bytes[j])
            /\ i + w <= Len(bytes) => ~IsContinuation(bytes[i + w])

\* for (buf, x) in buffer[offset..].iter_mut().zip(src.bytes()) { *buf = x }
ZipWrite(buffer, offset, src) ==
    [i \in 1 .. Len(buffer) |->
        IF i > offset /\ i - offset <= Len(src) THEN src[i - offset] ELSE buffer[i]]

\* no_alloc_concat(first, second, buffer): the first bytes go to the start of
\* the buffer, the second ones to buffer[second.len()..].
no_alloc_concat(first, second, buffer) ==
    LET len  == Len(first) + Len(second)
        buf1 == ZipWrite(buffer, 0, first)
        buf2 == ZipWrite(buf1, Len(second), second)
    IN  IF ~(len <= BufLen) THEN [panic |-> TRUE, str |-> <<>>, buffer |-> buffer]
        ELSE IF ~IsUtf8(SubSeq(buf2, 1, len))
             THEN [panic |-> TRUE, str |-> <<>>, buffer |-> buf2]
        ELSE [panic |-> FALSE, str |-> SubSeq(buf2, 1, len), buffer |-> buf2]

ZeroBuffer == [i \in 1 .. BufLen |-> 0]

(***************************************************************************)
(* Chunks, the lookup table and the incomplete addition.                   *)
(***************************************************************************)
\* Mutant of NextOrFalse: unwrap_or(true).
NextOrFalse_true(inner, j) == IF j <= Len(inner) THEN inner[j] ELSE TRUE

\* self.inner.next().unwrap_or(false) for the j-th bit still in the iterator.
NextOrFalse(inner, j) == IF j <= Len(inner) THEN inner[j] ELSE FALSE

\* The chunk Chunks::next builds, and the iterator after it.
NextItem(inner) ==
    << inner[1],
       NextOrFalse(inner, 2), NextOrFalse(inner, 3), NextOrFalse(inner, 4),
       NextOrFalse(inner, 5), NextOrFalse(inner, 6), NextOrFalse(inner, 7),
       NextOrFalse(inner, 8), NextOrFalse(inner, 9), NextOrFalse(inner, 10) >>
NextRest(inner) == IF Len(inner) <= 10 THEN <<>> ELSE SubSeq(inner, 11, Len(inner))

\* Mutant of ChunksNext: the chunk misses its tenth bit.
ChunksNext_nine(chunks) ==
    IF chunks.inner = <<>>
    THEN [none |-> TRUE, item |-> <<>>, chunks |-> chunks]
    ELSE [none |-> FALSE,
          item |-> SubSeq(NextItem(chunks.inner), 1, 9),
          chunks |-> [chunks EXCEPT !.inner =
                         IF Len(@) <= 9 THEN <<>> ELSE SubSeq(@, 10, Len(@))]]

\* Mutant of ChunksNext: an exhausted iterator first yields one chunk of
\* false bits, also when the message was empty.
ChunksNext_padEmpty(chunks) ==
    IF chunks.inner = <<>> /\ chunks.index = 0
    THEN [none |-> FALSE, item |-> [i \in 1 .. 10 |-> FALSE],
          chunks |-> [chunks EXCEPT !.index = 1]]
    ELSE IF chunks.inner = <<>>
    THEN [none |-> TRUE, item |-> <<>>, chunks |-> chunks]
    ELSE [none |-> FALSE, item |-> NextItem(chunks.inner),
          chunks |-> [chunks EXCEPT !.inner = NextRest(chunks.inner)]]

\* Chunks::next: None on an exhausted iterator, else the next ten bits,
\* false where the iterator has run out.
ChunksNext(chunks) ==
    LET inner == chunks.inner
    IN  IF inner = <<>>
        THEN [none |-> TRUE, item |-> <<>>, chunks |-> chunks]
        ELSE [none |-> FALSE,
              item |-> NextItem(inner),
              chunks |-> [chunks EXCEPT !.inner = NextRest(inner)]]

\* usize::to_le_bytes
RECURSIVE ToLeBytes(_, _)
ToLeBytes(j, n) == IF n = 0 THEN <<>> ELSE <<j % 256>> \o ToLeBytes(j \div 256, n - 1)

\* sinsemilla_s(j): the affine coordinates of hash_to_curve(S)(j.to_le_bytes());
\* coordinates().unwrap() fails on the identity.
sinsemilla_s(j) ==
    LET hash == HashToCurve(S_PERSONALIZATION, ToLeBytes(j, UsizeBytes))
    IN  [panic |-> hash = Identity, x |-> XCoord(hash), y |-> YCoord(hash)]

\* IncompletePoint: a point tagged Valid or Undefined.
Undefined == [valid |-> FALSE, point |-> Identity]
IncompleteFrom(p) == [valid |-> TRUE, point |-> p]

\* Incomplete addition: undefined when an operand is undefined or the
\* identity, or when the operands are equal or mutual negations.
IncompleteAdd(a, b) ==
    IF \/ ~a.valid \/ ~b.valid
       \/ a.point = Identity \/ b.point = Identity
       \/ a.point = b.point \/ a.point = PointNeg(b.point)
    THEN Undefined
    ELSE [valid |-> TRUE, point |-> PointAdd(a.point, b.point)]

\* From<IncompletePoint> for CtOption<pallas::Point>
CtFromIncomplete(a) == IF a.valid THEN CtSome(a.point) ELSE CtNone(Identity)

\* Mutant of FoldStep: (acc + S_chunk) + S_chunk.
FoldStep_twiceS(acc, S_chunk) ==
    IncompleteAdd(IncompleteAdd(acc, IncompleteFrom(S_chunk)), IncompleteFrom(S_chunk))

\* The closure of hash_to_point_inner: (acc + S_chunk) + acc.
FoldStep(acc, S_chunk) ==
    IncompleteAdd(IncompleteAdd(acc, IncompleteFrom(S_chunk)), acc)

\* The body of the fold's closure for one chunk: the chunk's index, its
\* point S, and (acc + S_chunk) + acc.  lebs2ip_k's assertion and the
\* unwrap of sinsemilla_s fail fast.
FoldClosure(acc_, chunk) ==
    LET j == lebs2ip_k(chunk)
        S == sinsemilla_s(j.val)
    IN  [panic |-> j.panic \/ S.panic,
         index |-> j.val,
         acc   |-> FoldStep(acc_, FromXY(S.x, S.y))]

\* Chunks::new(msg).fold(IncompletePoint::from(Q), closure), as one call.
RECURSIVE FoldAll(_, _)
FoldAll(acc_, chunks_) ==
    LET nx == ChunksNext(chunks_)
    IN  IF nx.none THEN [panic |-> FALSE, acc |-> acc_]
        ELSE LET c == FoldClosure(acc_, nx.item)
             IN  IF c.panic THEN [panic |-> TRUE, acc |-> acc_]
                 ELSE FoldAll(c.acc, nx.chunks)

hash_to_point_inner(Q, message) ==
    FoldAll(IncompleteFrom(Q), [inner |-> message, index |-> 0])

\* extract_p: the x-coordinate, zero for the identity.
extract_p(point) == IF point = Identity THEN 0 ELSE XCoord(point)

\* extract_p_bottom: CtOption::map of extract_p. map keeps the flag and
\* applies the closure to the held value of a present option, to the default
\* point (the identity) of an absent one.
extract_p_bottom(point) ==
    [is_some |-> point.is_some,
     value   |-> extract_p(IF point.is_some THEN point.value ELSE Identity)]

\* commit: CtOption::map of the closure p + R * r (the complete group law),
\* applied to the default point (the identity) when the option is absent.
CommitBlind(point, R_, r_) ==
    [is_some |-> point.is_some,
     value   |-> PointAdd(IF point.is_some THEN point.value ELSE Identity,
                          PointMul(R_, r_))]

\* hash_to_point, hash, commit and short_commit, each as one call.
CallResult(op_, Q, R_, message, r_) ==
    LET point == CtFromIncomplete(hash_to_point_inner(Q, message).acc)
    IN  CASE op_ = "hash_to_point" -> point
          [] op_ = "hash"          -> extract_p_bottom(point)
          [] op_ = "commit"        -> CommitBlind(point, R_, r_)
          [] op_ = "short_commit"  -> extract_p_bottom(CommitBlind(point, R_, r_))

(***************************************************************************)
(* Inputs.                                                                 *)
(***************************************************************************)
\* The characters labels are written in: "a", "b", the two-byte "é", the
\* three-byte "€" and the four-byte U+1F600.
Chars == { <<97>>, <<98>>, <<195, 169>>, <<226, 130, 172>>, <<240, 159, 152, 128>> }

RECURSIVE LabelsOf(_)
LabelsOf(n) ==
    IF n = 0 THEN { <<>> }
    ELSE LET shorter == LabelsOf(n - 1)
         IN  shorter \cup { l \o c : l \in shorter, c \in Chars }

\* Labels around the capacity of the buffer: 61 .. 62 + MaxOver bytes.
LongLabels ==
    { c \o [i \in 1 .. (n - Len(c)) |-> 97] :
        c \in Chars \cup { <<>> },
        n \in (BufLen - 3) .. (BufLen - 2 + MaxOver) }

Labels == LabelsOf(MaxLabelChars) \cup LongLabels

\* "test" (the label of the repository's test) and "ab".
HashLabels == { <<116, 101, 115, 116>>, <<97, 98>> }

RECURSIVE OnesSets(_, _)
OnesSets(n, k) ==
    IF k = 0 THEN { {} }
    ELSE LET fewer == OnesSets(n, k - 1)
         IN  fewer \cup { s \cup {i} : s \in fewer, i \in 1 .. n }

ShortMessages ==
    UNION { { [i \in 1 .. n |-> i \in s] : s \in OnesSets(n, MaxOnes) } :
            n \in 0 .. MaxMsgLen }

\* Patterned messages of n bits: all false, all true, every third bit.
Patterned(n) == { [i \in 1 .. n |-> (p = 1) \/ (p = 2 /\ i % 3 = 0)] : p \in 0 .. 2 }

\* Messages of three and four chunks.
MediumMessages == UNION { Patterned(n) : n \in (2 * K + 1) .. (3 * K + MaxOver) }

\* Messages around the limit of C*K bits.
LongMessages == UNION { Patterned(n) : n \in (C * K - 1) .. (C * K + MaxOver) }

\* The message of the repository's test.
TestMessage ==
    << TRUE, TRUE, FALSE, TRUE, FALSE, TRUE, FALSE, TRUE, FALSE, TRUE, TRUE >>

Messages == ShortMessages \cup MediumMessages \cup { TestMessage }

Scalars == 0 .. MaxScalar

HashOps == { "hash_to_point", "hash" }
CommitOps == { "commit", "short_commit" }

(***************************************************************************)
(* State.                                                                  *)
(***************************************************************************)
VARIABLES
    pc,            \* position of the running call
    panicked,      \* the call failed fast (assert or unwrap)
    kind,          \* "HashDomain" or "CommitDomain": the domain constructed
    domain,        \* the label given to new, as bytes
    op,            \* the operation called on the domain ("none": only new)
    msg,           \* the message given to the operation
    m_buffer,      \* CommitDomain::new: the two stack buffers
    r_buffer,
    m_prefix,      \* CommitDomain::new: the two derived label strings
    r_prefix,
    M,             \* the HashDomain (of a CommitDomain: its field M): [Q]
    R,             \* CommitDomain.R
    h2c_log,       \* the hash_to_curve calls the constructor made, in order
    chunks,        \* Chunks { inner, index }
    acc,           \* the accumulator of the fold
    folded,        \* the chunks folded so far: [bits, index]
    r,             \* the blinding scalar of commit / short_commit
    inner_result,  \* hash / short_commit: what hash_to_point / commit returned
    result,        \* what the operation returned
    rt_dir,        \* conversions: "int" (int -> bits -> int) or "bits"
    rt_in,         \* conversions: the input
    rt_mid,        \* conversions: the result of the first conversion
    rt_out         \* conversions: the result of the second conversion

inputs == <<kind, domain, op, msg>>
newvars == <<m_buffer, r_buffer, m_prefix, r_prefix, M, R, h2c_log>>
hashvars == <<chunks, acc, folded, r, inner_result, result>>
rtvars == <<rt_dir, rt_in, rt_mid, rt_out>>
vars == <<pc, panicked, inputs, newvars, hashvars, rtvars>>

NoPoint == CtNone(Identity)

InitNewVars ==
    /\ m_buffer = ZeroBuffer /\ r_buffer = ZeroBuffer
    /\ m_prefix = <<>> /\ r_prefix = <<>>
    /\ M = [Q |-> Identity] /\ R = Identity
    /\ h2c_log = <<>>

InitHashVars ==
    /\ chunks = [inner |-> <<>>, index |-> 0]
    /\ acc = Undefined
    /\ folded = <<>>
    /\ r = 0
    /\ inner_result = NoPoint
    /\ result = NoPoint

InitRtVars ==
    /\ rt_dir = "none" /\ rt_in = 0 /\ rt_mid = 0 /\ rt_out = 0

\* A domain is constructed for a label and one operation is called on it.
InitCall(messages) ==
    /\ pc = "start" /\ panicked = FALSE
    /\ domain \in HashLabels
    /\ op \in HashOps \cup CommitOps
    /\ kind = (IF op \in HashOps THEN "HashDomain" ELSE "CommitDomain")
    /\ msg \in messages
    /\ InitNewVars /\ InitHashVars /\ InitRtVars

Init == InitCall(Messages)

\* The same, also on the messages around the limit of C*K bits.
InitLong == InitCall(Messages \cup LongMessages)

\* A domain is constructed for a label.
InitNew ==
    /\ pc = "start" /\ panicked = FALSE
    /\ domain \in Labels
    /\ kind \in { "HashDomain", "CommitDomain" }
    /\ op = "none"
    /\ msg = <<>>
    /\ InitNewVars /\ InitHashVars /\ InitRtVars

\* A conversion is applied to an integer or to a bit sequence, and the
\* other one to its result.
InitBits ==
    /\ pc = "convert" /\ panicked = FALSE
    /\ kind = "none" /\ domain = <<>> /\ op = "none" /\ msg = <<>>
    /\ InitNewVars /\ InitHashVars
    /\ \/ rt_dir = "int" /\ rt_in \in 0 .. (2 ^ K - 1 + MaxOver)
       \/ rt_dir = "bits"
          /\ rt_in \in [1 .. K -> BOOLEAN] \cup [1 .. (K - 1) -> BOOLEAN]
    /\ rt_mid = 0 /\ rt_out = 0

(***************************************************************************)
(* Construction.                                                           *)
(***************************************************************************)
Panic ==
    /\ pc' = "panicked"
    /\ panicked' = TRUE

\* HashDomain::new(domain)
HashDomainNew(label) == [Q |-> HashToCurve(Q_PERSONALIZATION, label)]

NewHashDomain ==
    /\ pc = "start" /\ kind = "HashDomain"
    /\ M' = HashDomainNew(domain)
    /\ h2c_log' = Append(h2c_log, [pers |-> Q_PERSONALIZATION, message |-> domain])
    /\ pc' = "ready"
    /\ UNCHANGED <<panicked, inputs, m_buffer, r_buffer, m_prefix, r_prefix, R,
                   hashvars, rtvars>>

\* CommitDomain::new, first concatenation: m_prefix.
NewConcatM ==
    /\ pc = "start" /\ kind = "CommitDomain"
    /\ LET c == no_alloc_concat(domain, SuffixM, m_buffer)
       IN  /\ m_buffer' = c.buffer
           /\ IF c.panic
              THEN Panic /\ UNCHANGED m_prefix
              ELSE /\ m_prefix' = c.str
                   /\ pc' = "concat_r"
                   /\ UNCHANGED panicked
    /\ UNCHANGED <<inputs, r_buffer, r_prefix, M, R, h2c_log, hashvars, rtvars>>

\* CommitDomain::new, second concatenation: r_prefix.
NewConcatR ==
    /\ pc = "concat_r"
    /\ LET c == no_alloc_concat(domain, SuffixR, r_buffer)
       IN  /\ r_buffer' = c.buffer
           /\ IF c.panic
              THEN Panic /\ UNCHANGED r_prefix
              ELSE /\ r_prefix' = c.str
                   /\ pc' = "build"
                   /\ UNCHANGED panicked
    /\ UNCHANGED <<inputs, m_buffer, m_prefix, M, R, h2c_log, hashvars, rtvars>>

\* CommitDomain::new, the struct: M from m_prefix, R from r_prefix.
CommitDomainR(prefix) == HashToCurve(prefix, <<>>)

NewCommitDomain ==
    /\ pc = "build"
    /\ M' = HashDomainNew(m_prefix)
    /\ R' = CommitDomainR(r_prefix)
    /\ h2c_log' = h2c_log \o
                    << [pers |-> Q_PERSONALIZATION, message |-> m_prefix],
                       [pers |-> r_prefix, message |-> <<>>] >>
    /\ pc' = "ready"
    /\ UNCHANGED <<panicked, inputs, m_buffer, r_buffer, m_prefix, r_prefix,
                   hashvars, rtvars>>

(***************************************************************************)
(* hash_to_point_inner: Chunks::new(msg).fold(IncompletePoint::from(Q), f) *)
(***************************************************************************)
FoldBegin ==
    /\ pc = "ready" /\ op # "none"
    /\ chunks' = [inner |-> msg, index |-> 0]
    /\ acc' = IncompleteFrom(M.Q)
    /\ pc' = "fold"
    /\ UNCHANGED <<panicked, inputs, newvars, folded, r, inner_result, result, rtvars>>

\* One iteration of the fold: Chunks::next yields a chunk and the closure
\* is applied to it.
FoldChunk ==
    /\ pc = "fold"
    /\ ~ChunksNext(chunks).none
    /\ LET nx == ChunksNext(chunks)
           c  == FoldClosure(acc, nx.item)
       IN  /\ chunks' = nx.chunks
           /\ IF c.panic
              THEN Panic /\ UNCHANGED <<acc, folded>>
              ELSE /\ acc' = c.acc
                   /\ folded' = Append(folded, [bits |-> nx.item, index |-> c.index])
                   /\ UNCHANGED <<pc, panicked>>
    /\ UNCHANGED <<inputs, newvars, r, inner_result, result, rtvars>>

\* Chunks::next yields None: the fold returns the accumulator.
FoldOver == pc = "fold" /\ ChunksNext(chunks).none

HashToPointReturn ==
    /\ FoldOver /\ op = "hash_to_point"
    /\ result' = CtFromIncomplete(acc)
    /\ pc' = "done"
    /\ UNCHANGED <<panicked, inputs, newvars, chunks, acc, folded, r, inner_result, rtvars>>

HashReturn ==
    /\ FoldOver /\ op = "hash"
    /\ inner_result' = CtFromIncomplete(acc)
    /\ result' = extract_p_bottom(inner_result')
    /\ pc' = "done"
    /\ UNCHANGED <<panicked, inputs, newvars, chunks, acc, folded, r, rtvars>>

CommitReturn ==
    /\ FoldOver /\ op = "commit"
    /\ \E s \in Scalars :
          /\ r' = s
          /\ result' = CommitBlind(CtFromIncomplete(acc), R, s)
    /\ pc' = "done"
    /\ UNCHANGED <<panicked, inputs, newvars, chunks, acc, folded, inner_result, rtvars>>

ShortCommitReturn ==
    /\ FoldOver /\ op = "short_commit"
    /\ \E s \in Scalars :
          /\ r' = s
          /\ inner_result' = CommitBlind(CtFromIncomplete(acc), R, s)
    /\ result' = extract_p_bottom(inner_result')
    /\ pc' = "done"
    /\ UNCHANGED <<panicked, inputs, newvars, chunks, acc, folded, rtvars>>

(***************************************************************************)
(* The conversions, one after the other.                                   *)
(***************************************************************************)
ConvertFirst ==
    /\ pc = "convert"
    /\ LET c == IF rt_dir = "int" THEN i2lebsp_k(rt_in) ELSE lebs2ip_k(rt_in)
       IN  IF c.panic
           THEN Panic /\ UNCHANGED rt_mid
           ELSE rt_mid' = c.val /\ pc' = "convert_back" /\ UNCHANGED panicked
    /\ UNCHANGED <<inputs, newvars, hashvars, rt_dir, rt_in, rt_out>>

ConvertBack ==
    /\ pc = "convert_back"
    /\ LET c == IF rt_dir = "int" THEN lebs2ip_k(rt_mid) ELSE i2lebsp_k(rt_mid)
       IN  IF c.panic
           THEN Panic /\ UNCHANGED rt_out
           ELSE rt_out' = c.val /\ pc' = "done" /\ UNCHANGED panicked
    /\ UNCHANGED <<inputs, newvars, hashvars, rt_dir, rt_in, rt_mid>>

(***************************************************************************)
(* Specifications.                                                         *)
(***************************************************************************)
NextNew ==
    \/ NewHashDomain
    \/ NewConcatM
    \/ NewConcatR
    \/ NewCommitDomain

Next ==
    \/ NewHashDomain
    \/ NewConcatM
    \/ NewConcatR
    \/ NewCommitDomain
    \/ FoldBegin
    \/ FoldChunk
    \/ HashToPointReturn
    \/ HashReturn
    \/ CommitReturn
    \/ ShortCommitReturn

NextBits ==
    \/ ConvertFirst
    \/ ConvertBack

\* A domain is constructed and an operation is called on it.
Spec == Init /\ [][Next]_vars
\* The same, also on the messages around the limit of C*K bits.
SpecLong == InitLong /\ [][Next]_vars
\* A domain is constructed, over the whole set of labels.
SpecNew == InitNew /\ [][NextNew]_vars
\* The bit / integer conversions.
SpecBits == InitBits /\ [][NextBits]_vars

(***************************************************************************)
(* Claims about the construction (SpecNew).                                *)
(***************************************************************************)
\* CommitDomain::new has derived both label strings.
Derived == kind = "CommitDomain" /\ pc \in { "build", "ready" }

\* C1: for every label of at most BufLen - 2 bytes, the label strings
\* CommitDomain::new derives are the bytes of the label followed by the
\* bytes of "-M" and of "-r": nothing else, nothing missing.
C1_ExactConcatenation ==
    (Derived /\ Len(domain) + 2 <= BufLen) =>
        /\ m_prefix = domain \o SuffixM
        /\ r_prefix = domain \o SuffixR

\* The personalization the specification calls R_LABEL: "z.cash:SinsemillaR".
R_LABEL ==
    <<122, 46, 99, 97, 115, 104, 58, 83, 105, 110, 115, 101, 109, 105, 108, 108, 97, 82>>

\* C4: CommitDomain::new(label) calls hash-to-curve for M.Q with the
\* personalization Q_PERSONALIZATION and the message "<label>-M", and for R
\* with the fixed personalization R_LABEL and the message "<label>-r".
C4_ConstructorArguments ==
    (kind = "CommitDomain" /\ pc = "ready") =>
        h2c_log = << [pers |-> Q_PERSONALIZATION, message |-> domain \o SuffixM],
                     [pers |-> R_LABEL, message |-> domain \o SuffixR] >>

\* The hash-to-curve calls of CommitDomain::new(label), none when it fails fast.
CommitDomainCalls(label) ==
    LET m == no_alloc_concat(label, SuffixM, ZeroBuffer)
        rr == no_alloc_concat(label, SuffixR, ZeroBuffer)
    IN  IF m.panic \/ rr.panic THEN <<>>
        ELSE << [pers |-> Q_PERSONALIZATION, message |-> m.str],
                [pers |-> rr.str, message |-> <<>>] >>

\* C5: two labels within the bound give CommitDomain::new the same
\* hash-to-curve arguments for M.Q, and likewise for R, if and only if the
\* labels are equal byte for byte.
C5_DomainSeparation ==
    (kind = "CommitDomain" /\ pc = "ready") =>
        \A other \in Labels :
            (Len(other) + 2 <= BufLen) =>
                /\ (CommitDomainCalls(other) # <<>>
                      /\ CommitDomainCalls(other)[1] = h2c_log[1]) <=> (other = domain)
                /\ (CommitDomainCalls(other) # <<>>
                      /\ CommitDomainCalls(other)[2] = h2c_log[2]) <=> (other = domain)

(***************************************************************************)
(* Claims about the operations (Spec, SpecLong).                           *)
(***************************************************************************)
\* C2: hash_to_point, hash, commit and short_commit fail fast on every
\* message longer than C*K bits: none of them returns for such a message.
C2_TooLongFailsFast ==
    (op # "none" /\ Len(msg) > C * K) => pc # "done"

\* C3: hash and short_commit return no result when the point they
\* extract from is absent or is the identity, and its x-coordinate otherwise.
C3_AbsentOnIdentity ==
    (pc = "done" /\ op \in { "hash", "short_commit" }) =>
        /\ result.is_some <=>
              (inner_result.is_some /\ inner_result.value # Identity)
        /\ result.is_some => result.value = XCoord(inner_result.value)

\* The point S of a chunk index.
SPoint(j) == FromXY(sinsemilla_s(j).x, sinsemilla_s(j).y)

\* The exceptional cases of incomplete addition, on two points.
Exceptional(a, b) ==
    a = Identity \/ b = Identity \/ a = b \/ a = PointNeg(b)

C6_StartsValid ==
    (pc = "fold" /\ folded = <<>>) =>
        acc.valid /\ acc.point = M.Q /\ M.Q # Identity

C6_FoldStep ==
    (pc = "fold" /\ folded' # folded) =>
        LET a  == acc.point
            s  == SPoint(folded'[Len(folded')].index)
            ok == /\ acc.valid
                  /\ ~Exceptional(a, s)
                  /\ ~Exceptional(PointAdd(a, s), a)
        IN  /\ acc'.valid <=> ok
            /\ ok => acc'.point = PointAdd(PointAdd(a, s), a)

C6_Sticky == (pc = "fold" /\ ~acc.valid) => ~acc'.valid

C6_Return ==
    (pc = "fold" /\ pc' = "done" /\ op \in { "hash_to_point", "commit" }) =>
        (result'.is_some <=> acc.valid)

\* C6: the fold starts Valid at Q; a chunk leaves the accumulator Valid if
\* and only if it was Valid and neither addition of (acc + S) + acc, both on
\* the accumulator before the chunk, was exceptional; an Undefined
\* accumulator stays Undefined whatever chunks follow; and the point
\* returned is present if and only if the accumulator ended Valid.
C6_UndefinedIsSticky ==
    [](C6_StartsValid) /\ [][C6_FoldStep /\ C6_Sticky /\ C6_Return]_vars

\* The first chunk made the accumulator Undefined, more chunks followed, and
\* the result is absent.
C6_Witness ==
    /\ pc = "done" /\ op = "hash_to_point"
    /\ Len(folded) >= 2
    /\ \/ Exceptional(M.Q, SPoint(folded[1].index))
       \/ Exceptional(PointAdd(M.Q, SPoint(folded[1].index)), M.Q)
    /\ ~acc.valid /\ ~result.is_some

\* C7: on a message of at most C*K bits no operation fails fast and each
\* runs to its return: the chunker yields ceil(n / K) chunks for n bits,
\* every chunk has K bits and decodes to an index in 0 .. 2^K - 1.
C7_NoFailFast ==
    (op # "none" /\ Len(msg) <= C * K) =>
        /\ ~panicked /\ pc # "panicked"
        /\ \A i \in 1 .. Len(folded) :
              /\ Len(folded[i].bits) = K
              /\ folded[i].index \in 0 .. (2 ^ K - 1)
        /\ pc = "done" => Len(folded) = ((Len(msg) + K - 1) \div K)

\* A message of exactly C*K bits has been hashed in C chunks.
C7_Witness ==
    /\ pc = "done" /\ ~panicked
    /\ Len(msg) = C * K /\ Len(folded) = C

\* m right-padded with false to the next multiple of K bits.
Padded(m) == m \o [i \in 1 .. ((K - (Len(m) % K)) % K) |-> FALSE]

\* Every chunk Chunks yields for a message.
RECURSIVE AllChunks(_)
AllChunks(chunks_) ==
    LET nx == ChunksNext(chunks_)
    IN  IF nx.none THEN <<>> ELSE <<nx.item>> \o AllChunks(nx.chunks)

\* C8: an operation on a message whose length is no multiple of K returns
\* what it returns on the message padded with false bits to the next
\* multiple of K; both messages give the same chunks, which hold the bits of
\* the message in order and false after them.
C8_PaddingEquivalence ==
    (pc = "done" /\ Len(msg) % K # 0) =>
        LET padded == Padded(msg)
        IN  /\ ~hash_to_point_inner(M.Q, padded).panic
            /\ result = CallResult(op, M.Q, R, padded, r)
            /\ [i \in 1 .. Len(folded) |-> folded[i].bits] =
                   AllChunks([inner |-> padded, index |-> 0])
            /\ Len(folded) * K = Len(padded)
            /\ \A i \in 1 .. Len(padded) :
                  folded[((i - 1) \div K) + 1].bits[((i - 1) % K) + 1] =
                      (i <= Len(msg) /\ msg[i])

\* A message ending in a set bit in its second, padded chunk has been hashed.
C8_Witness ==
    /\ pc = "done" /\ op = "hash"
    /\ Len(msg) % K # 0 /\ Len(folded) = 2
    /\ msg[Len(msg)] /\ result.is_some

\* C10: hash_to_point on the empty message gets no chunk, folds nothing and
\* returns the base point Q of the domain, present.
C10_EmptyMessage ==
    (op = "hash_to_point" /\ msg = <<>>) =>
        /\ folded = <<>>
        /\ pc = "fold" => (ChunksNext(chunks).none /\ acc = IncompleteFrom(M.Q))
        /\ pc = "done" => (result = CtSome(M.Q) /\ M.Q # Identity)

\* hash_to_point has returned on the empty message.
C10_Witness ==
    /\ pc = "done" /\ op = "hash_to_point" /\ msg = <<>>
    /\ result.is_some /\ result.value = HashToCurve(Q_PERSONALIZATION, domain)

(***************************************************************************)
(* Claims about the conversions (SpecBits).                                *)
(***************************************************************************)
\* The K-bit sequence whose only set bit is bit i (counted from 0).
UnitBits(i) == [j \in 1 .. K |-> j = i + 1]

\* C9: lebs2ip_k(i2lebsp_k(n)) = n for every n in 0 .. 2^K - 1, and
\* i2lebsp_k(lebs2ip_k(b)) = b for every sequence b of K bits; neither call
\* fails fast; bit i of a sequence has weight 2^i.
C9_RoundTrip ==
    /\ (rt_dir = "int" /\ rt_in < 2 ^ K) =>
          /\ ~panicked
          /\ pc = "done" => rt_out = rt_in
          /\ pc # "convert" =>
                \A i \in 0 .. (K - 1) : (rt_in = 2 ^ i) => (rt_mid = UnitBits(i))
    /\ (rt_dir = "bits" /\ Len(rt_in) = K) =>
          /\ ~panicked
          /\ pc = "done" => rt_out = rt_in
          /\ pc # "convert" =>
                \A i \in 0 .. (K - 1) : (rt_in = UnitBits(i)) => (rt_mid = 2 ^ i)

\* A sequence that is not its own mirror image has gone to an integer and back.
C9_Witness ==
    /\ pc = "done" /\ rt_dir = "bits"
    /\ rt_in = [j \in 1 .. K |-> j <= 3]
    /\ rt_mid = 7 /\ rt_out = rt_in

====
